---- MODULE Spec2Model ----
(***************************************************************************)
(* Model of crm/schema.py: the GraphQL mutations create_customer,          *)
(* bulk_create_customers, create_product, create_order and                 *)
(* bulk_create_orders running as concurrent requests against one record    *)
(* store (tables Customer, Product, Order).                                *)
(*                                                                         *)
(* A request is served by a worker.  A customer handler reads the store    *)
(* (exists() / the email pre-fetch), validates in memory and only then     *)
(* inserts, so another request can commit between its read and its insert: *)
(* these handlers take two steps.  The other handlers are one step each.   *)
(* The record store itself (crm/models.py and the database) is not part of *)
(* schema.py; its operators are marked as modelled from the specification. *)
(***************************************************************************)
EXTENDS Integers, Sequences, FiniteSets, TLC

\* ---------------------------------------------------------------- bounds
MaxBatch == 2
MaxProducts == 1
MaxOrders == 2

Workers == {"w1", "w2"}
FirstWorker == "w1"
Emails == {"a@crm.io", "b@crm.io"}

\* ---------------------------------------------------------------- phones
\* A phone is a sequence of characters; NoPhone is the absent (None) or empty
\* phone, both falsy for `if phone:`.
NoPhone == << >>
PlusPhone == <<"+", "1", "2", "3", "4", "5", "6", "7", "8", "9", "0">>
ShortPhone == <<"1", "2", "3", "4", "5">>
Phones == {NoPhone, PlusPhone, ShortPhone}

Digits == {"0", "1", "2", "3", "4", "5", "6", "7", "8", "9"}

\* \+\d{10,15}
MatchesPlusForm(s) ==
    /\ Len(s) >= 11
    /\ Len(s) <= 16
    /\ s[1] = "+"
    /\ \A i \in 2..Len(s) : s[i] \in Digits

\* \d{3}-\d{3}-\d{4}
MatchesDashForm(s) ==
    /\ Len(s) = 12
    /\ s[4] = "-"
    /\ s[8] = "-"
    /\ \A i \in (1..12) \ {4, 8} : s[i] \in Digits

\* re.match(r'^(\+\d{10,15}|\d{3}-\d{3}-\d{4})$', phone): `$` also matches
\* just before one trailing newline.
PatternMatches(s) ==
    LET body == IF Len(s) > 0 /\ s[Len(s)] = "\n" THEN SubSeq(s, 1, Len(s) - 1) ELSE s
    IN  \/ MatchesPlusForm(s)
        \/ MatchesDashForm(s)
        \/ MatchesPlusForm(body)
        \/ MatchesDashForm(body)

\* validate_phone raises ValidationError exactly when this is FALSE.
validate_phone(phone) == PatternMatches(phone)

\* -------------------------------------------------------------- messages
MsgEmailExists == "This email already exists."
MsgPhoneFormat == "Invalid phone number format. Use +1234567890 or 123-456-7890."
MsgPriceNegative == "Price cannot be negative."
MsgStockNegative == "Stock cannot be negative."
MsgNoProductGiven == "At least one product must be specified."
MsgCustomerMissing == "Customer does not exist."
MsgProductMissing == "Product does not exist."
MsgIntegrity == "IntegrityError"
MsgDatabaseError == "Database error: IntegrityError"

MsgCustomerFailedValidation == "Customer creation failed due to validation errors."
MsgCustomerFailedDatabase == "Customer creation failed due to database error."
MsgCustomerCreated == "Customer created successfully."
MsgProductFailedValidation == "Product creation failed due to validation errors."
MsgProductFailedDatabase == "Product creation failed due to database error."
MsgProductCreated == "Product created successfully."
MsgOrderFailedValidation == "Order creation failed due to validation errors."
MsgOrderFailedDatabase == "Order creation failed due to database error."
MsgOrderCreated == "Order created successfully."

VARIABLES customers, products, orders, pc, req, loc, res

vars == <<customers, products, orders, pc, req, loc, res>>

\* ------------------------------------------------------------ the store
\* Django's Customer / Product / Order tables.  Rows are never updated or
\* deleted; the id is the auto-increment key.
StoredEmails == {customers[i].email : i \in DOMAIN customers}

CustomerFound(id) == \E i \in DOMAIN customers : customers[i].id = id
ProductFound(id) == \E i \in DOMAIN products : products[i].id = id

\* The store refuses an insert that would break Customer.email's unique key.
UniqueEmailViolation_Unchecked(objs) == FALSE
UniqueEmailViolation(objs) ==
    \/ \E i \in DOMAIN objs : objs[i].email \in StoredEmails
    \/ \E i, j \in DOMAIN objs : i # j /\ objs[i].email = objs[j].email

\* Customer.objects.create / bulk_create: the rows appended, ids assigned.
InsertedCustomers(objs) ==
    [i \in 1..Len(objs) |->
        [id |-> Len(customers) + i, email |-> objs[i].email, phone |-> objs[i].phone]]

InsertedOrders(objs) ==
    [i \in 1..Len(objs) |->
        [id |-> Len(orders) + i, customer |-> objs[i].customer, product |-> objs[i].product]]

Ids(rows) == [i \in 1..Len(rows) |-> rows[i].id]

\* What an insert into Product or Order can answer: such a constraint
\* violation depends on nothing this program controls.
StoreOutcomes == {"ok", "IntegrityError"}

\* --------------------------------------------------------------- inputs
NoStock == << >>
Prices == {-1, 10}
Stocks == {NoStock, <<-1>>, <<5>>}

\* graphene.ID values: 0 stands for the empty ID "" (falsy, never a key); a
\* customer id names no row until that many customers exist.  objects.get is
\* taken to raise DoesNotExist for every id that names no row, the empty one
\* included: how the ORM converts a malformed id is not part of schema.py.
IsEmptyId(id) == id = 0
CustomerIds == 1..Cardinality(Emails)
ProductIds == {0, 1}

CustomerRows == [email : Emails, phone : Phones]
RacePhones == {PlusPhone, ShortPhone}
RaceRows == [email : Emails, phone : RacePhones]
OrderRows == [customer_id : CustomerIds, product_id : ProductIds]
Batches(S) == UNION {[1..n -> S] : n \in 0..MaxBatch}
CustomerBatches == Batches(CustomerRows)
RaceBatches == Batches(RaceRows)
OrderBatches == Batches(OrderRows)

\* ------------------------------------------------------------- results
Pending == [outcome |-> "pending", success |-> FALSE, message |-> << >>,
            created |-> << >>, errors |-> << >>]
\* An exception left mutate(): the caller gets no result object.
Raised == [outcome |-> "raised", success |-> FALSE, message |-> << >>,
           created |-> << >>, errors |-> << >>]
\* errors=None is written << >>.  An entry of a List(String) errors field is
\* written as a record with the one field messages, so that every error
\* entry of the model is a record.
Plain(text) == [messages |-> text]
Returned(success, message, created, errors) ==
    [outcome |-> "returned", success |-> success, message |-> message,
     created |-> created, errors |-> errors]

\* A handler's locals: existing_emails, errors, valid_objects (valid_orders).
\* Kept beside them, for the properties: prefetched, the emails the store
\* held at the read (existing_emails before the loop adds to it); row, in
\* valid_objects, the row's position in the batch; integrity, whether the
\* insert raised IntegrityError; ncustomers/nproducts, the table sizes the
\* lookups saw.
Locals(prefetched, existing_emails, errors, valid_objects) ==
    [prefetched |-> prefetched, existing_emails |-> existing_emails, errors |-> errors,
     valid_objects |-> valid_objects, integrity |-> FALSE,
     ncustomers |-> Len(customers), nproducts |-> Len(products)]

NoRequest == [op |-> "none", rows |-> << >>]

NoLocals == [prefetched |-> {}, existing_emails |-> {}, errors |-> << >>, valid_objects |-> << >>,
             integrity |-> FALSE, ncustomers |-> 0, nproducts |-> 0]

Init ==
    /\ customers = << >>
    /\ products = << >>
    /\ orders = << >>
    /\ pc = [w \in Workers |-> "idle"]
    /\ req = [w \in Workers |-> NoRequest]
    /\ loc = [w \in Workers |-> NoLocals]
    /\ res = [w \in Workers |-> Pending]

\* The worker hands the response (or the exception) to the caller and is
\* free for the next request.
Respond(w) ==
    /\ pc[w] = "done"
    /\ pc' = [pc EXCEPT ![w] = "idle"]
    /\ req' = [req EXCEPT ![w] = NoRequest]
    /\ loc' = [loc EXCEPT ![w] = NoLocals]
    /\ res' = [res EXCEPT ![w] = Pending]
    /\ UNCHANGED <<customers, products, orders>>

\* ------------------------------------------------------ create_customer
\* CreateCustomer.mutate up to its validation return.
CreateCustomerErrors_EmailUnchecked(email, phone) ==
    IF phone # NoPhone /\ ~validate_phone(phone) THEN <<Plain(MsgPhoneFormat)>> ELSE << >>
CreateCustomerErrors(email, phone) ==
    (IF email \in StoredEmails THEN <<Plain(MsgEmailExists)>> ELSE << >>)
    \o (IF phone # NoPhone /\ ~validate_phone(phone) THEN <<Plain(MsgPhoneFormat)>> ELSE << >>)

CreateCustomerValidate(w, email, phone) ==
    LET errors == CreateCustomerErrors(email, phone)
        obj == [email |-> email, phone |-> phone, row |-> 0]
    IN  /\ pc[w] = "idle"
        /\ req' = [req EXCEPT ![w] = [op |-> "create_customer", rows |-> <<obj>>]]
        /\ loc' = [loc EXCEPT ![w] = Locals({email} \cap StoredEmails, {email} \cap StoredEmails, errors, <<obj>>)]
        /\ IF errors # << >>
           THEN /\ res' = [res EXCEPT ![w] =
                           Returned(FALSE, <<MsgCustomerFailedValidation>>, << >>, errors)]
                /\ pc' = [pc EXCEPT ![w] = "done"]
           ELSE /\ res' = [res EXCEPT ![w] = Pending]
                /\ pc' = [pc EXCEPT ![w] = "create_customer"]
        /\ UNCHANGED <<customers, products, orders>>

\* Customer.objects.create with its except IntegrityError.
CreateCustomerInsert(w) ==
    LET objs == loc[w].valid_objects
        new == InsertedCustomers(objs)
    IN  /\ pc[w] = "create_customer"
        /\ pc' = [pc EXCEPT ![w] = "done"]
        /\ IF UniqueEmailViolation(objs)
           THEN /\ res' = [res EXCEPT ![w] =
                           Returned(FALSE, <<MsgCustomerFailedDatabase>>, << >>, <<Plain(MsgIntegrity)>>)]
                /\ loc' = [loc EXCEPT ![w].integrity = TRUE]
                /\ UNCHANGED customers
           ELSE /\ customers' = customers \o new
                /\ res' = [res EXCEPT ![w] =
                           Returned(TRUE, <<MsgCustomerCreated>>, Ids(new), << >>)]
                /\ UNCHANGED loc
        /\ UNCHANGED <<products, orders, req>>

\* ------------------------------------------------- bulk_create_customers
\* One row's checks in CreateBulkCustomers.mutate: the message of the
\* ValidationError raised, or "" when the row passes.
CustomerRowCheck_PhoneFirst(data, existing_emails) ==
    IF data.phone # NoPhone /\ ~validate_phone(data.phone) THEN MsgPhoneFormat
    ELSE IF data.email \in existing_emails THEN MsgEmailExists
    ELSE ""
CustomerRowCheck(data, existing_emails) ==
    IF data.email \in existing_emails THEN MsgEmailExists
    ELSE IF data.phone # NoPhone /\ ~validate_phone(data.phone) THEN MsgPhoneFormat
    ELSE ""

\* BulkCustomerError(index=index, ...): position is the row's 1-based place,
\* index enumerate's 0-based one.
BulkCustomerErrorEntry_OneBased(position, data, messages) ==
    [index |-> position, email |-> data.email, messages |-> messages]
BulkCustomerErrorEntry(position, data, messages) ==
    [index |-> position - 1, email |-> data.email, messages |-> messages]

\* existing_emails after an accepted row (existing_emails.add) and after a
\* rejected one (the except branch adds nothing).
SeenAfterAccept_NotAdded(existing_emails, data) == existing_emails
SeenAfterAccept(existing_emails, data) == existing_emails \cup {data.email}
SeenAfterReject_Reserved(existing_emails, data) == existing_emails \cup {data.email}
SeenAfterReject(existing_emails, data) == existing_emails

\* The loop of CreateBulkCustomers.mutate from the row at `position`.
RECURSIVE ValidateCustomers(_, _, _, _, _)
ValidateCustomers(batch, position, existing_emails, errors, valid_objects) ==
    IF position > Len(batch)
    THEN [existing_emails |-> existing_emails, errors |-> errors,
          valid_objects |-> valid_objects]
    ELSE LET data == batch[position]
             failure == CustomerRowCheck(data, existing_emails)
         IN  IF failure # ""
             THEN ValidateCustomers(batch, position + 1,
                                    SeenAfterReject(existing_emails, data),
                                    Append(errors, BulkCustomerErrorEntry(position, data, failure)),
                                    valid_objects)
             ELSE ValidateCustomers(batch, position + 1,
                                    SeenAfterAccept(existing_emails, data), errors,
                                    Append(valid_objects,
                                           [email |-> data.email, phone |-> data.phone,
                                            row |-> position - 1]))

BulkCustomersMessage(created) == <<"Created", Len(created), "customers.">>

\* The pre-fetch and the loop; with no valid row the handler returns at once.
BulkCustomersValidate(w, batch) ==
    LET prefetched == {batch[i].email : i \in DOMAIN batch} \cap StoredEmails
        v == ValidateCustomers(batch, 1, prefetched, << >>, << >>)
    IN  /\ pc[w] = "idle"
        /\ req' = [req EXCEPT ![w] = [op |-> "bulk_create_customers", rows |-> batch]]
        /\ loc' = [loc EXCEPT ![w] = Locals(prefetched, v.existing_emails, v.errors, v.valid_objects)]
        /\ IF v.valid_objects = << >>
           THEN /\ res' = [res EXCEPT ![w] =
                           Returned(v.errors = << >>, BulkCustomersMessage(<< >>), << >>, v.errors)]
                /\ pc' = [pc EXCEPT ![w] = "done"]
           ELSE /\ res' = [res EXCEPT ![w] = Pending]
                /\ pc' = [pc EXCEPT ![w] = "bulk_create_customers"]
        /\ UNCHANGED <<customers, products, orders>>

\* transaction.atomic() around bulk_create: no except clause follows it.
BulkCustomersInsert(w) ==
    LET objs == loc[w].valid_objects
        new == InsertedCustomers(objs)
    IN  /\ pc[w] = "bulk_create_customers"
        /\ pc' = [pc EXCEPT ![w] = "done"]
        /\ IF UniqueEmailViolation(objs)
           THEN /\ res' = [res EXCEPT ![w] = Raised]
                /\ loc' = [loc EXCEPT ![w].integrity = TRUE]
                /\ UNCHANGED customers
           ELSE /\ customers' = customers \o new
                /\ res' = [res EXCEPT ![w] =
                           Returned(loc[w].errors = << >>, BulkCustomersMessage(new),
                                    Ids(new), loc[w].errors)]
                /\ UNCHANGED loc
        /\ UNCHANGED <<products, orders, req>>

\* -------------------------------------------------------- create_product
\* validate_price_stock raises at its first failing check.
ProductErrors(price, stock) ==
    IF price < 0 THEN <<Plain(MsgPriceNegative)>>
    ELSE IF stock # NoStock /\ stock[1] < 0 THEN <<Plain(MsgStockNegative)>>
    ELSE << >>

CreateProduct(w, price, stock, outcome) ==
    LET errors == ProductErrors(price, stock)
        row == [price |-> price, stock |-> stock]
        new == [id |-> Len(products) + 1, price |-> price, stock |-> stock]
    IN  /\ pc[w] = "idle"
        /\ req' = [req EXCEPT ![w] = [op |-> "create_product", rows |-> <<row>>]]
        /\ pc' = [pc EXCEPT ![w] = "done"]
        /\ UNCHANGED <<customers, orders>>
        /\ IF errors # << >>
           THEN /\ res' = [res EXCEPT ![w] =
                           Returned(FALSE, <<MsgProductFailedValidation>>, << >>, errors)]
                /\ loc' = [loc EXCEPT ![w] = Locals({}, {}, errors, << >>)]
                /\ UNCHANGED products
           ELSE IF outcome = "IntegrityError"
           THEN /\ res' = [res EXCEPT ![w] =
                           Returned(FALSE, <<MsgProductFailedDatabase>>, << >>, <<Plain(MsgIntegrity)>>)]
                /\ loc' = [loc EXCEPT ![w] = [Locals({}, {}, errors, <<row>>) EXCEPT !.integrity = TRUE]]
                /\ UNCHANGED products
           ELSE /\ Len(products) < MaxProducts
                /\ products' = Append(products, new)
                /\ res' = [res EXCEPT ![w] =
                           Returned(TRUE, <<MsgProductCreated>>, <<new.id>>, << >>)]
                /\ loc' = [loc EXCEPT ![w] = Locals({}, {}, errors, <<row>>)]

\* ---------------------------------------------------------- create_order
OrderErrors(customer_id, product_id) ==
    (IF IsEmptyId(product_id) THEN <<Plain(MsgNoProductGiven)>> ELSE << >>)
    \o (IF ~CustomerFound(customer_id) THEN <<Plain(MsgCustomerMissing)>> ELSE << >>)
    \o (IF ~ProductFound(product_id) THEN <<Plain(MsgProductMissing)>> ELSE << >>)

CreateOrder(w, customer_id, product_id, outcome) ==
    LET errors == OrderErrors(customer_id, product_id)
        row == [customer_id |-> customer_id, product_id |-> product_id]
        obj == [customer |-> customer_id, product |-> product_id, row |-> 0]
        new == InsertedOrders(<<obj>>)
    IN  /\ pc[w] = "idle"
        /\ req' = [req EXCEPT ![w] = [op |-> "create_order", rows |-> <<row>>]]
        /\ pc' = [pc EXCEPT ![w] = "done"]
        /\ UNCHANGED <<customers, products>>
        /\ IF errors # << >>
           THEN /\ res' = [res EXCEPT ![w] =
                           Returned(FALSE, <<MsgOrderFailedValidation>>, << >>, errors)]
                /\ loc' = [loc EXCEPT ![w] = Locals({}, {}, errors, << >>)]
                /\ UNCHANGED orders
           ELSE IF outcome = "IntegrityError"
           THEN /\ res' = [res EXCEPT ![w] =
                           Returned(FALSE, <<MsgOrderFailedDatabase>>, << >>, <<Plain(MsgIntegrity)>>)]
                /\ loc' = [loc EXCEPT ![w] = [Locals({}, {}, errors, <<obj>>) EXCEPT !.integrity = TRUE]]
                /\ UNCHANGED orders
           ELSE /\ Len(orders) < MaxOrders
                /\ orders' = orders \o new
                /\ res' = [res EXCEPT ![w] =
                           Returned(TRUE, <<MsgOrderCreated>>, Ids(new), << >>)]
                /\ loc' = [loc EXCEPT ![w] = Locals({}, {}, errors, <<obj>>)]

\* ----------------------------------------------------- bulk_create_orders
\* One row's lookups in CreateBulkOrders.mutate: the message of the error
\* entry appended before `continue`, or "" when both rows are found.
OrderRowCheck_CustomerUnchecked(data) ==
    IF ~ProductFound(data.product_id) THEN MsgProductMissing
    ELSE ""
OrderRowCheck(data) ==
    IF ~CustomerFound(data.customer_id) THEN MsgCustomerMissing
    ELSE IF ~ProductFound(data.product_id) THEN MsgProductMissing
    ELSE ""

BulkOrderErrorEntry(position, data, messages) ==
    [index |-> position - 1, customer_id |-> data.customer_id,
     product_id |-> data.product_id, messages |-> messages]

\* The validation loop of CreateBulkOrders.mutate from the row at `position`.
RECURSIVE ValidateOrders(_, _, _, _)
ValidateOrders(batch, position, errors, valid_orders) ==
    IF position > Len(batch)
    THEN [errors |-> errors, valid_orders |-> valid_orders]
    ELSE LET data == batch[position]
             failure == OrderRowCheck(data)
         IN  IF failure # ""
             THEN ValidateOrders(batch, position + 1,
                                 Append(errors, BulkOrderErrorEntry(position, data, failure)),
                                 valid_orders)
             ELSE ValidateOrders(batch, position + 1, errors,
                                 Append(valid_orders,
                                        [customer |-> data.customer_id,
                                         product |-> data.product_id, row |-> position - 1]))

\* except IntegrityError: one entry per valid order, indexed by
\* enumerate(valid_orders).
DatabaseErrorEntries(valid_orders) ==
    [idx \in 1..Len(valid_orders) |->
        [index |-> idx - 1, customer_id |-> valid_orders[idx].customer,
         product_id |-> valid_orders[idx].product, messages |-> MsgDatabaseError]]

BulkOrdersMessage(created) == <<"Created", Len(created), "orders.">>

BulkOrders(w, batch, outcome) ==
    LET v == ValidateOrders(batch, 1, << >>, << >>)
        new == InsertedOrders(v.valid_orders)
        failed == v.errors \o DatabaseErrorEntries(v.valid_orders)
    IN  /\ pc[w] = "idle"
        /\ req' = [req EXCEPT ![w] = [op |-> "bulk_create_orders", rows |-> batch]]
        /\ pc' = [pc EXCEPT ![w] = "done"]
        /\ UNCHANGED <<customers, products>>
        /\ IF v.valid_orders = << >>
           THEN /\ res' = [res EXCEPT ![w] =
                           Returned(v.errors = << >>, BulkOrdersMessage(<< >>), << >>, v.errors)]
                /\ loc' = [loc EXCEPT ![w] = Locals({}, {}, v.errors, << >>)]
                /\ UNCHANGED orders
           ELSE IF outcome = "IntegrityError"
           THEN /\ res' = [res EXCEPT ![w] =
                           Returned(FALSE, BulkOrdersMessage(<< >>), << >>, failed)]
                /\ loc' = [loc EXCEPT ![w] =
                           [Locals({}, {}, failed, v.valid_orders) EXCEPT !.integrity = TRUE]]
                /\ UNCHANGED orders
           ELSE /\ Len(orders) + Len(new) <= MaxOrders
                /\ orders' = orders \o new
                /\ res' = [res EXCEPT ![w] =
                           Returned(v.errors = << >>, BulkOrdersMessage(new), Ids(new), v.errors)]
                /\ loc' = [loc EXCEPT ![w] = Locals({}, {}, v.errors, v.valid_orders)]

\* ------------------------------------------------------------ the system
\* One worker serving requests of every kind, one after another.
Next ==
    \/ \E email \in Emails, phone \in Phones :
          CreateCustomerValidate(FirstWorker, email, phone)
    \/ CreateCustomerInsert(FirstWorker)
    \/ \E batch \in CustomerBatches : BulkCustomersValidate(FirstWorker, batch)
    \/ BulkCustomersInsert(FirstWorker)
    \/ \E price \in Prices, stock \in Stocks, outcome \in StoreOutcomes :
          CreateProduct(FirstWorker, price, stock, outcome)
    \/ \E customer_id \in CustomerIds, product_id \in ProductIds, outcome \in StoreOutcomes :
          CreateOrder(FirstWorker, customer_id, product_id, outcome)
    \/ \E batch \in OrderBatches, outcome \in StoreOutcomes :
          BulkOrders(FirstWorker, batch, outcome)
    \/ Respond(FirstWorker)

Spec == Init /\ [][Next]_vars

\* Two workers serving customer requests concurrently: each handler's read
\* of the store and its insert are separate steps.
RaceNext ==
    \/ \E w \in Workers, email \in Emails, phone \in RacePhones :
          CreateCustomerValidate(w, email, phone)
    \/ \E w \in Workers : CreateCustomerInsert(w)
    \/ \E w \in Workers, batch \in RaceBatches : BulkCustomersValidate(w, batch)
    \/ \E w \in Workers : BulkCustomersInsert(w)
    \/ \E w \in Workers : Respond(w)

RaceSpec == Init /\ [][RaceNext]_vars

\* ============================================================ properties
\* What a finished request shows: its rows, its locals, its response.
Finished(w, op) == pc[w] = "done" /\ req[w].op = op
Positions(w) == 1..Len(req[w].rows)

\* The phone of a row is acceptable: absent, or of the documented pattern.
PhoneAcceptable(phone) == phone = NoPhone \/ PatternMatches(phone)

\* Row i of w's customer batch passes: its email was not in storage at the
\* pre-fetch, its phone is acceptable, and no earlier row with its email has
\* an acceptable phone (such a row would have been accepted before it).
CustomerRowPasses(w, i) ==
    LET rows == req[w].rows
    IN  /\ rows[i].email \notin loc[w].prefetched
        /\ PhoneAcceptable(rows[i].phone)
        /\ \A j \in 1..(i - 1) :
              rows[j].email = rows[i].email => ~PhoneAcceptable(rows[j].phone)

\* Row i of w's order batch resolves: both ids named rows when looked up.
OrderRowResolves(w, i) ==
    LET rows == req[w].rows
    IN  /\ rows[i].customer_id \in 1..loc[w].ncustomers
        /\ rows[i].product_id \in 1..loc[w].nproducts

RowPasses(w, i) ==
    IF req[w].op = "bulk_create_customers" THEN CustomerRowPasses(w, i) ELSE OrderRowResolves(w, i)

\* The positions of S in increasing order.
Ordered(S) ==
    [k \in 1..Cardinality(S) |-> CHOOSE i \in S : Cardinality({j \in S : j < i}) = k - 1]

PassingRows(w) == Ordered({i \in Positions(w) : RowPasses(w, i)})
FailingRows(w) == Ordered({i \in Positions(w) : ~RowPasses(w, i)})

\* The stored row that the k-th created id names carries the k-th passing
\* input row.
CreatedCarries(w, k) ==
    LET id == res[w].created[k]
        row == req[w].rows[PassingRows(w)[k]]
    IN  IF req[w].op = "bulk_create_customers"
        THEN /\ id \in DOMAIN customers
             /\ customers[id].id = id
             /\ customers[id].email = row.email
             /\ customers[id].phone = row.phone
        ELSE /\ id \in DOMAIN orders
             /\ orders[id].id = id
             /\ orders[id].customer = row.customer_id
             /\ orders[id].product = row.product_id

BulkOps == {"bulk_create_customers", "bulk_create_orders"}
InsertSucceeded(w) == res[w].outcome = "returned" /\ ~loc[w].integrity

\* C1: a bulk request of N rows of which M fail validation, whose atomic
\* insert succeeds, creates exactly the N-M passing rows, returns exactly M
\* error entries and gives each entry the position of its row in the batch.
C1_BulkPartition ==
    \A w \in Workers :
        (pc[w] = "done" /\ req[w].op \in BulkOps /\ InsertSucceeded(w)) =>
            LET N == Len(req[w].rows)
                M == Len(FailingRows(w))
            IN  /\ Len(res[w].created) = N - M
                /\ res[w].message[2] = N - M
                /\ Len(res[w].errors) = M
                /\ \A k \in 1..M : res[w].errors[k].index = FailingRows(w)[k] - 1
                /\ \A k \in 1..(N - M) : CreatedCarries(w, k)
                /\ res[w].success = (M = 0)

\* A batch whose first row fails and whose second is created.
C1_Witness ==
    \E w \in Workers :
        /\ Finished(w, "bulk_create_orders")
        /\ InsertSucceeded(w)
        /\ Len(req[w].rows) = 2
        /\ ~RowPasses(w, 1)
        /\ RowPasses(w, 2)
        /\ Len(res[w].created) = 1

DatabaseErrorCount(w) ==
    Cardinality({k \in DOMAIN res[w].errors : res[w].errors[k].messages = MsgDatabaseError})

NonePersisted(w) ==
    IF req[w].op = "bulk_create_customers"
    THEN \A k \in DOMAIN loc[w].valid_objects :
            ~\E c \in DOMAIN customers :
                /\ customers[c].email = loc[w].valid_objects[k].email
                /\ customers[c].id \in {res[w].created[n] : n \in DOMAIN res[w].created}
    ELSE res[w].created = << >>

\* C2: when the atomic insert of a bulk request fails after K rows passed
\* validation, the handler returns a result with 0 created and K
\* database-error entries, and none of the K rows is persisted.
C2_InsertFailureReported ==
    \A w \in Workers :
        (pc[w] = "done" /\ req[w].op \in BulkOps /\ loc[w].integrity) =>
            /\ res[w].outcome = "returned"
            /\ res[w].created = << >>
            /\ res[w].message[2] = 0
            /\ DatabaseErrorCount(w) = Len(loc[w].valid_objects)
            /\ NonePersisted(w)

\* C3: every handler returns a result object whatever the store answers; no
\* failure leaves a handler.
C3_AlwaysReturns ==
    \A w \in Workers : pc[w] = "done" => res[w].outcome = "returned"

\* C4: every error entry of bulk_create_orders, the database-error entries
\* included, carries the position of its row in the input batch.
C4_OrderErrorIndexIsPosition ==
    \A w \in Workers :
        (Finished(w, "bulk_create_orders") /\ res[w].outcome = "returned") =>
            LET rejected == Len(FailingRows(w))
            IN  \A k \in DOMAIN res[w].errors :
                    res[w].errors[k].index =
                        IF k <= rejected
                        THEN FailingRows(w)[k] - 1
                        ELSE loc[w].valid_objects[k - rejected].row

\* C5: no two Customer records have the same email, whatever the
\* interleaving of create_customer and bulk_create_customers requests.
C5_EmailUnique ==
    \A i, j \in DOMAIN customers : customers[i].email = customers[j].email => i = j

\* Two requests passed their existence check for one email; the store held
\* it by the time the second one inserted.
C5_Witness ==
    \E w \in Workers :
        /\ pc[w] = "done"
        /\ loc[w].integrity
        /\ \E k \in DOMAIN loc[w].valid_objects :
              /\ loc[w].valid_objects[k].email \notin loc[w].prefetched
              /\ loc[w].valid_objects[k].email \in StoredEmails

\* Row i of w's batch was put on valid_objects / is a stored row this
\* request created / has an error entry with message m in the handler's list.
AcceptedFor(w, i) ==
    \E k \in DOMAIN loc[w].valid_objects : loc[w].valid_objects[k].row = i - 1

InsertedFor(w, i) ==
    /\ res[w].outcome = "returned"
    /\ \E k \in DOMAIN res[w].created :
          /\ k \in DOMAIN loc[w].valid_objects
          /\ loc[w].valid_objects[k].row = i - 1
          /\ res[w].created[k] \in DOMAIN customers
          /\ customers[res[w].created[k]].email = req[w].rows[i].email

RejectedWith(w, i, m) ==
    /\ \E k \in DOMAIN loc[w].errors :
          /\ loc[w].errors[k].index = i - 1
          /\ loc[w].errors[k].email = req[w].rows[i].email
          /\ loc[w].errors[k].messages = m
    /\ ~AcceptedFor(w, i)
    /\ res[w].outcome = "returned" => res[w].errors = loc[w].errors

\* Rows i < j of w's batch share an email that storage did not hold at the
\* pre-fetch, and i is the first row with it.
ShareNewEmail(w, i, j) ==
    LET rows == req[w].rows
    IN  /\ i < j
        /\ rows[i].email = rows[j].email
        /\ rows[i].email \notin loc[w].prefetched
        /\ \A h \in 1..(i - 1) : rows[h].email # rows[i].email

\* C6 as claimed: of two rows of one batch sharing an email new to storage,
\* the first (if its phone passes) is accepted and inserted, every later one
\* is rejected as a duplicate and not inserted.
C6_FirstInsertedLaterRejected ==
    \A w \in Workers :
        Finished(w, "bulk_create_customers") =>
            \A i, j \in Positions(w) :
                (ShareNewEmail(w, i, j) /\ PhoneAcceptable(req[w].rows[i].phone)) =>
                    /\ AcceptedFor(w, i)
                    /\ InsertedFor(w, i)
                    /\ RejectedWith(w, j, MsgEmailExists)

\* C6, amended: of two rows of one batch sharing an email new to storage, the
\* first (if its phone passes) is accepted, and inserted whenever the atomic
\* insert succeeds; every later one is rejected as a duplicate and never
\* inserted.
C6_FirstAcceptedLaterRejected ==
    \A w \in Workers :
        Finished(w, "bulk_create_customers") =>
            \A i, j \in Positions(w) :
                (ShareNewEmail(w, i, j) /\ PhoneAcceptable(req[w].rows[i].phone)) =>
                    /\ AcceptedFor(w, i)
                    /\ InsertSucceeded(w) => InsertedFor(w, i)
                    /\ ~InsertSucceeded(w) => ~InsertedFor(w, i)
                    /\ RejectedWith(w, j, MsgEmailExists)

C6_Witness ==
    \E w \in Workers :
        /\ Finished(w, "bulk_create_customers")
        /\ \E i, j \in Positions(w) :
              /\ ShareNewEmail(w, i, j)
              /\ PhoneAcceptable(req[w].rows[j].phone)
              /\ InsertedFor(w, i)
              /\ RejectedWith(w, j, MsgEmailExists)

\* C7: a create_order request or bulk_create_orders row whose customer_id or
\* product_id names no record gets a reference error and no Order; so every
\* stored Order references a stored Customer and a stored Product.
C7_MissingReferenceCreatesNoOrder ==
    /\ \A w \in Workers :
          Finished(w, "create_order") =>
              LET r == req[w].rows[1]
              IN  ~OrderRowResolves(w, 1) =>
                     /\ res[w].outcome = "returned"
                     /\ ~res[w].success
                     /\ res[w].created = << >>
                     /\ res[w].message = <<MsgOrderFailedValidation>>
                     /\ r.customer_id \notin 1..loc[w].ncustomers =>
                           \E k \in DOMAIN res[w].errors : res[w].errors[k].messages = MsgCustomerMissing
                     /\ r.product_id \notin 1..loc[w].nproducts =>
                           \E k \in DOMAIN res[w].errors : res[w].errors[k].messages = MsgProductMissing
    /\ \A w \in Workers :
          Finished(w, "bulk_create_orders") =>
              /\ res[w].outcome = "returned"
              /\ Len(res[w].created) <= Len(loc[w].valid_objects)
              /\ \A i \in Positions(w) :
                    ~OrderRowResolves(w, i) =>
                       /\ ~AcceptedFor(w, i)
                       /\ \E k \in DOMAIN res[w].errors :
                             /\ res[w].errors[k].index = i - 1
                             /\ res[w].errors[k].customer_id = req[w].rows[i].customer_id
                             /\ res[w].errors[k].product_id = req[w].rows[i].product_id
                             /\ res[w].errors[k].messages \in {MsgCustomerMissing, MsgProductMissing}
    /\ \A o \in DOMAIN orders :
          /\ \E c \in DOMAIN customers : customers[c].id = orders[o].customer
          /\ \E q \in DOMAIN products : products[q].id = orders[o].product

\* A batch with one row created and one row refused for a missing reference.
C7_Witness ==
    \E w \in Workers :
        /\ Finished(w, "bulk_create_orders")
        /\ \E i, j \in Positions(w) : ~OrderRowResolves(w, i) /\ OrderRowResolves(w, j)
        /\ Len(res[w].created) = 1
        /\ orders # << >>

\* C8: an input whose email storage already holds when the handler reads it
\* is refused with the already-exists validation error (create_customer:
\* success=false; bulk: an error entry for the row), and the request inserts
\* no row with that email.
C8_ExistingEmailRefused ==
    /\ \A w \in Workers :
          (Finished(w, "create_customer") /\ req[w].rows[1].email \in loc[w].prefetched) =>
              /\ res[w].outcome = "returned"
              /\ ~res[w].success
              /\ res[w].message = <<MsgCustomerFailedValidation>>
              /\ res[w].errors[1].messages = MsgEmailExists
              /\ res[w].created = << >>
    /\ \A w \in Workers :
          Finished(w, "bulk_create_customers") =>
              /\ \A i \in Positions(w) :
                    req[w].rows[i].email \in loc[w].prefetched =>
                        RejectedWith(w, i, MsgEmailExists)
              /\ \A k \in DOMAIN res[w].created :
                    /\ res[w].created[k] \in DOMAIN customers
                    /\ customers[res[w].created[k]].email \notin loc[w].prefetched
    /\ \A w \in Workers :
          pc[w] # "idle" =>
              \A e \in loc[w].prefetched :
                  Cardinality({c \in DOMAIN customers : customers[c].email = e}) = 1

\* A batch with a row refused for its stored email beside a row it inserted.
C8_Witness ==
    \E w \in Workers :
        /\ Finished(w, "bulk_create_customers")
        /\ \E i \in Positions(w) : req[w].rows[i].email \in loc[w].prefetched
        /\ res[w].created # << >>

\* Validation-time entries of w's response (the database-error entries of a
\* failed order insert aside) for row i.
ValidationEntries(w, i) ==
    {k \in DOMAIN res[w].errors :
        /\ res[w].errors[k].index = i - 1
        /\ res[w].errors[k].messages # MsgDatabaseError}

SeenBefore(w, i) ==
    \/ req[w].rows[i].email \in loc[w].prefetched
    \/ \E j \in 1..(i - 1) :
          req[w].rows[j].email = req[w].rows[i].email /\ CustomerRowPasses(w, j)

\* The first check row i fails, "" when it passes all of them.
FirstFailure(w, i) ==
    IF req[w].op = "bulk_create_customers"
    THEN IF SeenBefore(w, i) THEN MsgEmailExists
         ELSE IF ~PhoneAcceptable(req[w].rows[i].phone) THEN MsgPhoneFormat
         ELSE ""
    ELSE IF req[w].rows[i].customer_id \notin 1..loc[w].ncustomers THEN MsgCustomerMissing
         ELSE IF req[w].rows[i].product_id \notin 1..loc[w].nproducts THEN MsgProductMissing
         ELSE ""

\* C9: in a bulk request a row's checks run uniqueness, then format, then
\* (orders) customer before product, and stop at the first failure: a
\* rejected row has exactly one error entry, with the first failing check's
\* message; a passing row has none.
C9_FirstFailureOnly ==
    \A w \in Workers :
        (pc[w] = "done" /\ req[w].op \in BulkOps /\ res[w].outcome = "returned") =>
            \A i \in Positions(w) :
                IF FirstFailure(w, i) = ""
                THEN ValidationEntries(w, i) = {}
                ELSE /\ Cardinality(ValidationEntries(w, i)) = 1
                     /\ \A k \in ValidationEntries(w, i) :
                           res[w].errors[k].messages = FirstFailure(w, i)

\* A customer row with a stored email and a malformed phone, and an order
\* batch cannot be in one state: the customer row stands for both.
C9_Witness ==
    \E w \in Workers :
        /\ Finished(w, "bulk_create_customers")
        /\ \E i \in Positions(w) :
              /\ req[w].rows[i].email \in loc[w].prefetched
              /\ ~PhoneAcceptable(req[w].rows[i].phone)
              /\ Cardinality(ValidationEntries(w, i)) = 1

\* Row j of w's batch has an acceptable phone and an email new to storage
\* that earlier rows carried too, each of them rejected for its phone.
AfterPhoneRejects(w, j) ==
    LET rows == req[w].rows
    IN  /\ PhoneAcceptable(rows[j].phone)
        /\ rows[j].email \notin loc[w].prefetched
        /\ \E i \in 1..(j - 1) : rows[i].email = rows[j].email
        /\ \A i \in 1..(j - 1) :
              rows[i].email = rows[j].email => ~PhoneAcceptable(rows[i].phone)

SeenIsPrefetchedAndAccepted(w) ==
    loc[w].existing_emails =
        loc[w].prefetched
            \cup {loc[w].valid_objects[k].email : k \in DOMAIN loc[w].valid_objects}

\* C10 as claimed: a row rejected for its phone does not reserve its email
\* (the seen set holds the pre-fetched emails and those of accepted rows
\* only), so a later row with that email and valid fields is accepted and
\* inserted.
C10_LaterRowInserted ==
    \A w \in Workers :
        Finished(w, "bulk_create_customers") =>
            /\ SeenIsPrefetchedAndAccepted(w)
            /\ \A j \in Positions(w) :
                  AfterPhoneRejects(w, j) => AcceptedFor(w, j) /\ InsertedFor(w, j)

\* C10, amended: ... so a later row with that email and valid fields is
\* accepted, and inserted whenever the atomic insert succeeds.
C10_LaterRowAccepted ==
    \A w \in Workers :
        (pc[w] \in {"bulk_create_customers", "done"} /\ req[w].op = "bulk_create_customers") =>
            /\ SeenIsPrefetchedAndAccepted(w)
            /\ \A j \in Positions(w) :
                  AfterPhoneRejects(w, j) =>
                      /\ AcceptedFor(w, j)
                      /\ \A k \in DOMAIN loc[w].errors : loc[w].errors[k].index # j - 1
                      /\ (pc[w] = "done" /\ InsertSucceeded(w)) => InsertedFor(w, j)

C10_Witness ==
    \E w \in Workers :
        /\ Finished(w, "bulk_create_customers")
        /\ \E j \in Positions(w) :
              /\ AfterPhoneRejects(w, j)
              /\ InsertedFor(w, j)
              /\ Len(loc[w].errors) = j - 1
====
